---- MODULE Spec2Model ----
(***************************************************************************)
(* Model of package walks (src/walks.go): the ignore compiler SetIgnore,   *)
(* the concurrent walker Walk/walk coordinated by the global WaitGroup,    *)
(* and the single-threaded walker WalkLinear.                              *)
(*                                                                         *)
(* Strings are sequences of one-character strings, so that path joining,   *)
(* line splitting, dot escaping and pattern matching are computed as the   *)
(* code computes them.                                                     *)
(***************************************************************************)
EXTENDS Integers, Sequences, FiniteSets, TLC

(***************************************************************************)
(* Bounds of the model.                                                    *)
(***************************************************************************)
\* largest number of entries below the walk root
MaxNodes == 2
\* depth arguments range over -1..MaxDepth (WalkLinear: -1..MaxDepth+1)
MaxDepth == 1
\* WalkLinear start levels range over 0..MaxStart
MaxStart == 1

(***************************************************************************)
(* Strings.                                                                *)
(***************************************************************************)
\* entry names, in the byte order in which ioutil.ReadDir returns them
NameSeq == << <<".", "g", "i", "t">>,
              <<"a">>,
              <<"n", "o", "d", "e", "_", "m", "o", "d", "u", "l", "e", "s">> >>

Names == {NameSeq[i] : i \in 1..Len(NameSeq)}

\* the root argument of the walks
RootPath == <<"r">>

\* the path of the ignore file
IgnPath == <<"i", "g", "n">>

\* contents an ignore file may have
IgnContents ==
    { <<>>,
      <<"n", "o", "d", "e", "_", "m", "o", "d", "u", "l", "e", "s", "\n",
        ".", "g", "i", "t", "\n">>,
      <<".", "\n">>,
      <<"a", "\n", "\n", ".", "g", "i", "t", "\n">> }

\* strings.Split(s, sep) for a one-character separator
RECURSIVE Split(_, _)
Split(s, sep) ==
    IF \A i \in 1..Len(s) : s[i] # sep
    THEN <<s>>
    ELSE LET i == CHOOSE k \in 1..Len(s) :
                      s[k] = sep /\ \A j \in 1..(k - 1) : s[j] # sep
         IN  <<SubSeq(s, 1, i - 1)>> \o Split(SubSeq(s, i + 1, Len(s)), sep)

\* strings.Replace(line, ".", "\\.", -1)
RECURSIVE EscapeDots(_)
EscapeDots(s) ==
    IF s = <<>> THEN <<>>
    ELSE (IF Head(s) = "." THEN <<"\\", ".">> ELSE <<Head(s)>>)
         \o EscapeDots(Tail(s))

\* the loop of SetIgnore over the lines of the file, from line i (1-based)
RECURSIVE IgnLoop(_, _, _)
IgnLoop(lines, i, ign) ==
    IF i > Len(lines) THEN ign
    ELSE LET line == lines[i] IN
         IF line = <<>> THEN ign
         ELSE LET sep  == IF i # 1 THEN ign \o <<"|">> ELSE ign
                  anch == IF line = <<".">> \/ line = <<".", ".">>
                          THEN <<"^">> \o line \o <<"$">>
                          ELSE line
              IN  IgnLoop(lines, i + 1, sep \o EscapeDots(anch))

\* the pattern source SetIgnore compiles from the contents of the file
BuildIgn(contents) == IgnLoop(Split(contents, "\n"), 1, <<>>)

(***************************************************************************)
(* regexp matching, for the patterns SetIgnore builds from lines over      *)
(* letters, "_" and ".": alternatives separated by "|", an optional        *)
(* leading "^" and trailing "$", "\." a literal dot, "." any character.    *)
(***************************************************************************)
RECURSIVE Tokens(_)
Tokens(s) ==
    IF s = <<>> THEN <<>>
    ELSE IF Head(s) = "\\" /\ Len(s) >= 2
         THEN << <<"lit", s[2]>> >> \o Tokens(SubSeq(s, 3, Len(s)))
         ELSE IF Head(s) = "."
              THEN << <<"any", ".">> >> \o Tokens(Tail(s))
              ELSE << <<"lit", Head(s)>> >> \o Tokens(Tail(s))

TokOk(tok, c) == tok[1] = "any" \/ tok[2] = c

\* one alternative of a pattern, parsed
ParseAlt(alt) ==
    LET bol  == Len(alt) >= 1 /\ alt[1] = "^"
        a1   == IF bol THEN Tail(alt) ELSE alt
        eol  == Len(a1) >= 1 /\ a1[Len(a1)] = "$"
        body == IF eol THEN SubSeq(a1, 1, Len(a1) - 1) ELSE a1
    IN  [bol |-> bol, eol |-> eol, toks |-> Tokens(body)]

\* regexp.MustCompile(src): the *regexp.Regexp, with its source (String())
\* and its parsed alternatives
MustCompile(src) ==
    LET alts == Split(src, "|")
    IN  [src |-> src, prog |-> [a \in 1..Len(alts) |-> ParseAlt(alts[a])]]

AltMatches(alt, s) ==
    \E i \in 0..(Len(s) - Len(alt.toks)) :
        /\ alt.bol => i = 0
        /\ alt.eol => i + Len(alt.toks) = Len(s)
        /\ \A k \in 1..Len(alt.toks) : TokOk(alt.toks[k], s[i + k])

\* (*regexp.Regexp).MatchString
MatchString(re, s) == \E a \in 1..Len(re.prog) : AltMatches(re.prog[a], s)

\* the ignore test with the emptiness guard inverted
Ignored_Inverted(re, pathName) == MatchString(re, pathName) /\ re.src = <<>>

\* the ignore test of both walkers
Ignored(re, pathName) == MatchString(re, pathName) /\ re.src # <<>>

(***************************************************************************)
(* The directory tree: a function from the paths that exist to their kind. *)
(* "dir" is a directory, "xdir" a directory whose listing fails, "file" a  *)
(* regular file, "other" anything else (symlink, socket, device).          *)
(***************************************************************************)
Kinds == {"dir", "xdir", "file", "other"}

\* pathName := root + "/" + path.Name()
Join(root, name) == root \o <<"/">> \o name

KindOf(tree, p) == IF p \in DOMAIN tree THEN tree[p] ELSE "none"

\* pathType.IsDir()
IsDir(k) == k \in {"dir", "xdir"}

\* ioutil.ReadDir(root): the names of the entries, sorted by name
RECURSIVE ReadDirFrom(_, _, _)
ReadDirFrom(tree, root, i) ==
    IF i > Len(NameSeq) THEN <<>>
    ELSE (IF Join(root, NameSeq[i]) \in DOMAIN tree
          THEN <<NameSeq[i]>> ELSE <<>>)
         \o ReadDirFrom(tree, root, i + 1)

ReadDir(tree, root) == ReadDirFrom(tree, root, 1)

\* the trees with at most n entries below a root that is a directory
RECURSIVE TreesOf(_)
TreesOf(n) ==
    IF n = 0 THEN {RootPath :> "dir"}
    ELSE LET prev == TreesOf(n - 1)
         IN  prev \cup
             UNION { UNION { { t @@ (Join(p, nm) :> k) :
                                 nm \in {x \in Names : Join(p, x) \notin DOMAIN t},
                                 k \in Kinds }
                             : p \in {q \in DOMAIN t : t[q] = "dir"} }
                     : t \in prev }

\* a missing root, or a root that is not a listable directory
BadRoots == {[p \in {} |-> "dir"]}
            \cup {RootPath :> k : k \in {"xdir", "file", "other"}}

\* the states the file at IgnPath may be in: whether it exists, whether it
\* can be read and written, its contents, and whether its directory allows
\* creating and removing entries
IgnFile(e, r, w, c, d) ==
    [exists |-> e, readable |-> r, writable |-> w, contents |-> c, dirw |-> d]

IgnFiles ==
    {IgnFile(FALSE, FALSE, FALSE, <<>>, d) : d \in BOOLEAN}
    \cup {IgnFile(TRUE, TRUE, TRUE, c, TRUE) : c \in IgnContents}
    \cup {IgnFile(TRUE, FALSE, w, <<"a", "\n">>, d) : w \in BOOLEAN, d \in BOOLEAN}

(***************************************************************************)
(* State.                                                                  *)
(***************************************************************************)
VARIABLES
    fs,         \* the directory tree below RootPath
    ignFile,    \* the file at IgnPath
    Ignore,     \* the global pattern Ignore
    lastCall,   \* the latest call made by the calling goroutine
    mainPc,     \* position of the calling goroutine
    main2Pc,    \* position of a second goroutine that calls Walk, on Root2
    exited,     \* "no", or how the process ended: "fatal" (log.Fatal), "panic"
    WaitGroup,  \* the counter of the global sync.WaitGroup
    depth,      \* the depth argument of Walk
    tasks,      \* the goroutines running walk, by the directory they walk
    fileCalls,  \* fileAction calls made by Walk: path -> number of calls
    dirCalls,   \* dirAction calls made by Walk
    conOps,     \* os.Stat / ioutil.ReadDir calls made by walk: <<op, path, level>>
    linDepth,   \* the depth argument of WalkLinear
    linLevel,   \* the level argument of the outermost WalkLinear call
                \* (-1 while WalkLinear has not been called)
    stack,      \* the active WalkLinear calls, innermost last
    linFiles,   \* fileAction calls made by WalkLinear
    linDirs,    \* dirAction calls made by WalkLinear
    linOps      \* os.Stat / ioutil.ReadDir calls made by WalkLinear

vars == <<fs, ignFile, Ignore, lastCall, mainPc, main2Pc, exited, WaitGroup, depth, tasks,
          fileCalls, dirCalls, conOps, linDepth, linLevel, stack, linFiles,
          linDirs, linOps>>

ignVars == <<ignFile, Ignore>>
conVars == <<WaitGroup, depth, tasks, fileCalls, dirCalls, conOps>>
linVars == <<linDepth, linLevel, stack, linFiles, linDirs, linOps>>

NoCalls == [p \in {} |-> 0]

\* one more call of an action on path p
Called(calls, p) ==
    IF p \in DOMAIN calls THEN [calls EXCEPT ![p] = @ + 1]
    ELSE calls @@ (p :> 1)

InitRest ==
    /\ Ignore = MustCompile(<<>>)
    /\ lastCall = "none"
    /\ mainPc = "config"
    /\ main2Pc = "idle"
    /\ exited = "no"
    /\ WaitGroup = 0
    /\ depth = -1
    /\ tasks = [p \in {} |-> 0]
    /\ fileCalls = NoCalls
    /\ dirCalls = NoCalls
    /\ conOps = {}
    /\ linDepth = -1
    /\ linLevel = -1
    /\ stack = <<>>
    /\ linFiles = NoCalls
    /\ linDirs = NoCalls
    /\ linOps = {}

\* the walks, over every tree, with an ignore file that holds patterns or
\* is missing
Init ==
    /\ fs \in TreesOf(MaxNodes) \cup BadRoots
    /\ ignFile \in {f \in IgnFiles :
                      IF f.exists THEN f.readable /\ Len(f.contents) > 2
                      ELSE f.dirw}
    /\ InitRest

\* SetIgnore, over every state of the ignore file, with the smaller trees
InitIgn ==
    /\ fs \in TreesOf(MaxNodes - 1) \cup BadRoots
    /\ ignFile \in IgnFiles
    /\ InitRest

(***************************************************************************)
(* SetIgnore (the calling goroutine, before the walks).                    *)
(***************************************************************************)
\* os.WriteFile(ignFilePath, "", 0755) succeeds
CanWrite(f) == IF f.exists THEN f.writable ELSE f.dirw

\* the file after os.WriteFile(ignFilePath, "", 0755)
Written(f) ==
    IF f.exists THEN [f EXCEPT !.contents = <<>>]
    ELSE [f EXCEPT !.exists = TRUE, !.readable = TRUE, !.writable = TRUE,
                   !.contents = <<>>]

\* the file after os.RemoveAll(ignFilePath), whose error is dropped
Removed(f) ==
    IF f.dirw
    THEN [f EXCEPT !.exists = FALSE, !.readable = FALSE, !.writable = FALSE,
                   !.contents = <<>>]
    ELSE f

\* SetIgnore installing the empty pattern for an empty path
SetIgnore_ResetOnEmpty(ignFilePath) ==
    /\ mainPc = "config"
    /\ exited = "no"
    /\ lastCall' = IF ignFilePath = <<>> THEN "SetIgnore(\"\")" ELSE "SetIgnore"
    /\ IF ignFilePath = <<>>
       THEN Ignore' = MustCompile(<<>>) /\ UNCHANGED <<ignFile, exited>>
       ELSE IF ignFile.exists /\ ignFile.readable
            THEN /\ Ignore' = MustCompile(BuildIgn(ignFile.contents))
                 /\ UNCHANGED <<ignFile, exited>>
            ELSE IF ~CanWrite(ignFile)
                 THEN /\ exited' = "fatal"
                      /\ UNCHANGED <<ignFile, Ignore>>
                 ELSE /\ Ignore' = MustCompile(BuildIgn(<<>>))
                      /\ ignFile' = Removed(Written(ignFile))
                      /\ UNCHANGED exited
    /\ UNCHANGED <<fs, main2Pc, mainPc>>
    /\ UNCHANGED conVars
    /\ UNCHANGED linVars

SetIgnore(ignFilePath) ==
    /\ mainPc = "config"
    /\ exited = "no"
    /\ lastCall' = IF ignFilePath = <<>> THEN "SetIgnore(\"\")" ELSE "SetIgnore"
    /\ IF ignFilePath = <<>>
       THEN UNCHANGED <<ignFile, Ignore, exited>>
       ELSE IF ignFile.exists /\ ignFile.readable
            THEN /\ Ignore' = MustCompile(BuildIgn(ignFile.contents))
                 /\ UNCHANGED <<ignFile, exited>>
            ELSE IF ~CanWrite(ignFile)
                 THEN /\ exited' = "fatal"
                      /\ UNCHANGED <<ignFile, Ignore>>
                 ELSE /\ Ignore' = MustCompile(BuildIgn(<<>>))
                      /\ ignFile' = Removed(Written(ignFile))
                      /\ UNCHANGED exited
    /\ UNCHANGED <<fs, main2Pc, mainPc>>
    /\ UNCHANGED conVars
    /\ UNCHANGED linVars

(***************************************************************************)
(* The global WaitGroup.                                                   *)
(***************************************************************************)
\* WaitGroup.Done(): a negative counter panics
Done ==
    IF WaitGroup - 1 < 0
    THEN exited' = "panic" /\ UNCHANGED WaitGroup
    ELSE WaitGroup' = WaitGroup - 1 /\ UNCHANGED exited

(***************************************************************************)
(* Walk and walk.  log.Fatal prints and calls os.Exit(1): the step of a    *)
(* goroutine that meets a fatal condition is the step that ends the        *)
(* process, after which no goroutine takes a step.                         *)
(***************************************************************************)
Depths == -1..MaxDepth

Task(l, pc, i, w) == [level |-> l, pc |-> pc, i |-> i, wrapper |-> w]

\* Walk with WaitGroup.Add(3): one unit more than the Done calls of the root
Walk_Add_Three(d) ==
    /\ mainPc = "config" \/ (mainPc = "afterLinear" /\ linLevel = 0)
    /\ exited = "no"
    /\ lastCall' = "Walk"
    /\ WaitGroup' = WaitGroup + 3
    /\ depth' = d
    /\ mainPc' = "go"
    /\ UNCHANGED <<fs, main2Pc, exited, tasks, fileCalls, dirCalls, conOps>>
    /\ UNCHANGED ignVars
    /\ UNCHANGED linVars

\* Walk with WaitGroup.Add(1): no unit for the goroutine started by Walk
Walk_Add_One(d) ==
    /\ mainPc = "config" \/ (mainPc = "afterLinear" /\ linLevel = 0)
    /\ exited = "no"
    /\ lastCall' = "Walk"
    /\ WaitGroup' = WaitGroup + 1
    /\ depth' = d
    /\ mainPc' = "go"
    /\ UNCHANGED <<fs, main2Pc, exited, tasks, fileCalls, dirCalls, conOps>>
    /\ UNCHANGED ignVars
    /\ UNCHANGED linVars

\* Walk: WaitGroup.Add(2)
Walk_Add(d) ==
    /\ mainPc = "config" \/ (mainPc = "afterLinear" /\ linLevel = 0)
    /\ exited = "no"
    /\ lastCall' = "Walk"
    /\ WaitGroup' = WaitGroup + 2
    /\ depth' = d
    /\ mainPc' = "go"
    /\ UNCHANGED <<fs, main2Pc, exited, tasks, fileCalls, dirCalls, conOps>>
    /\ UNCHANGED ignVars
    /\ UNCHANGED linVars

\* Walk: go func() { defer WaitGroup.Done(); walk(root, ..., 0) }()
Walk_Go ==
    /\ mainPc = "go"
    /\ exited = "no"
    /\ tasks' = tasks @@ (RootPath :> Task(0, "enter", 1, TRUE))
    /\ mainPc' = "wait"
    /\ UNCHANGED <<fs, main2Pc, lastCall, exited, WaitGroup, depth, fileCalls, dirCalls, conOps>>
    /\ UNCHANGED ignVars
    /\ UNCHANGED linVars

\* Walk: WaitGroup.Wait() returns, and Walk with it
Walk_Wait ==
    /\ mainPc = "wait"
    /\ exited = "no"
    /\ WaitGroup = 0
    /\ mainPc' = "returned"
    /\ UNCHANGED <<fs, main2Pc, lastCall, exited>>
    /\ UNCHANGED conVars
    /\ UNCHANGED ignVars
    /\ UNCHANGED linVars

\* a goroutine that keeps running after log.Fatal
Running_AfterExit(p, pc) == p \in DOMAIN tasks /\ tasks[p].pc = pc

\* goroutine p is at pc, in a process that has not exited
Running(p, pc) == exited = "no" /\ p \in DOMAIN tasks /\ tasks[p].pc = pc

\* the frame of the steps of walk
walkFrame == /\ UNCHANGED <<fs, main2Pc, mainPc, depth, lastCall>>
             /\ UNCHANGED ignVars
             /\ UNCHANGED linVars

\* return from walk without the deferred WaitGroup.Done()
walkReturns_NoDone(p) ==
    /\ UNCHANGED <<WaitGroup, exited>>
    /\ tasks' = [tasks EXCEPT ![p].pc =
                    IF tasks[p].wrapper THEN "wrapper" ELSE "returned"]

\* return from walk: the deferred WaitGroup.Done()
walkReturns(p) ==
    /\ Done
    /\ tasks' = [tasks EXCEPT ![p].pc =
                    IF tasks[p].wrapper THEN "wrapper" ELSE "returned"]

\* walk pruning at level >= depth
walk_Enter_Geq(p) ==
    /\ Running(p, "enter")
    /\ IF depth # -1 /\ tasks[p].level >= depth
       THEN walkReturns(p)
       ELSE /\ tasks' = [tasks EXCEPT ![p].pc = "stat"]
            /\ UNCHANGED <<WaitGroup, exited>>
    /\ UNCHANGED <<fileCalls, dirCalls, conOps>>
    /\ walkFrame

\* walk pruning one level late, at level > depth + 1
walk_Enter_OffByOne(p) ==
    /\ Running(p, "enter")
    /\ IF depth # -1 /\ tasks[p].level > depth + 1
       THEN walkReturns(p)
       ELSE /\ tasks' = [tasks EXCEPT ![p].pc = "stat"]
            /\ UNCHANGED <<WaitGroup, exited>>
    /\ UNCHANGED <<fileCalls, dirCalls, conOps>>
    /\ walkFrame

\* walk: if depth != -1 && level > depth { return }
walk_Enter(p) ==
    /\ Running(p, "enter")
    /\ IF depth # -1 /\ tasks[p].level > depth
       THEN walkReturns(p)
       ELSE /\ tasks' = [tasks EXCEPT ![p].pc = "stat"]
            /\ UNCHANGED <<WaitGroup, exited>>
    /\ UNCHANGED <<fileCalls, dirCalls, conOps>>
    /\ walkFrame

\* walk: os.Stat(root), fatal on an error or on a root that is no directory
walk_Stat(p) ==
    /\ Running(p, "stat")
    /\ conOps' = conOps \cup {<<"stat", p, tasks[p].level>>}
    /\ IF ~IsDir(KindOf(fs, p))
       THEN exited' = "fatal" /\ UNCHANGED tasks
       ELSE tasks' = [tasks EXCEPT ![p].pc = "readdir"] /\ UNCHANGED exited
    /\ UNCHANGED <<WaitGroup, fileCalls, dirCalls>>
    /\ walkFrame

\* walk: ioutil.ReadDir(root), fatal on an error
walk_ReadDir(p) ==
    /\ Running(p, "readdir")
    /\ conOps' = conOps \cup {<<"readdir", p, tasks[p].level>>}
    /\ IF KindOf(fs, p) # "dir"
       THEN exited' = "fatal" /\ UNCHANGED tasks
       ELSE tasks' = [tasks EXCEPT ![p].pc = "loop", ![p].i = 1]
            /\ UNCHANGED exited
    /\ UNCHANGED <<WaitGroup, fileCalls, dirCalls>>
    /\ walkFrame

\* walk skipping an entry of unsupported kind instead of log.Fatal
walk_Entry_SkipOther(p) ==
    /\ Running(p, "loop")
    /\ tasks[p].i <= Len(ReadDir(fs, p))
    /\ LET pathName == Join(p, ReadDir(fs, p)[tasks[p].i])
           pathType == KindOf(fs, pathName)
       IN  IF Ignored(Ignore, pathName)
           THEN /\ tasks' = [tasks EXCEPT ![p].i = @ + 1]
                /\ UNCHANGED <<exited, fileCalls, dirCalls>>
           ELSE IF IsDir(pathType)
           THEN /\ dirCalls' = Called(dirCalls, pathName)
                /\ tasks' = [tasks EXCEPT ![p].pc = "add"]
                /\ UNCHANGED <<exited, fileCalls>>
           ELSE IF pathType = "file"
           THEN /\ fileCalls' = Called(fileCalls, pathName)
                /\ tasks' = [tasks EXCEPT ![p].i = @ + 1]
                /\ UNCHANGED <<exited, dirCalls>>
           ELSE /\ tasks' = [tasks EXCEPT ![p].i = @ + 1]
                /\ UNCHANGED <<exited, fileCalls, dirCalls>>
    /\ UNCHANGED <<WaitGroup, conOps>>
    /\ walkFrame

\* walk starting the goroutine of a subdirectory without calling dirAction
walk_Entry_NoDirAction(p) ==
    /\ Running(p, "loop")
    /\ tasks[p].i <= Len(ReadDir(fs, p))
    /\ LET pathName == Join(p, ReadDir(fs, p)[tasks[p].i])
           pathType == KindOf(fs, pathName)
       IN  IF Ignored(Ignore, pathName)
           THEN /\ tasks' = [tasks EXCEPT ![p].i = @ + 1]
                /\ UNCHANGED <<exited, fileCalls, dirCalls>>
           ELSE IF IsDir(pathType)
           THEN /\ tasks' = [tasks EXCEPT ![p].pc = "add"]
                /\ UNCHANGED <<exited, fileCalls, dirCalls>>
           ELSE IF pathType = "file"
           THEN /\ fileCalls' = Called(fileCalls, pathName)
                /\ tasks' = [tasks EXCEPT ![p].i = @ + 1]
                /\ UNCHANGED <<exited, dirCalls>>
           ELSE /\ exited' = "fatal"
                /\ UNCHANGED <<tasks, fileCalls, dirCalls>>
    /\ UNCHANGED <<WaitGroup, conOps>>
    /\ walkFrame

\* walk calling fileAction as well as dirAction on a subdirectory
walk_Entry_BothActions(p) ==
    /\ Running(p, "loop")
    /\ tasks[p].i <= Len(ReadDir(fs, p))
    /\ LET pathName == Join(p, ReadDir(fs, p)[tasks[p].i])
           pathType == KindOf(fs, pathName)
       IN  IF Ignored(Ignore, pathName)
           THEN /\ tasks' = [tasks EXCEPT ![p].i = @ + 1]
                /\ UNCHANGED <<exited, fileCalls, dirCalls>>
           ELSE IF IsDir(pathType)
           THEN /\ dirCalls' = Called(dirCalls, pathName)
                /\ fileCalls' = Called(fileCalls, pathName)
                /\ tasks' = [tasks EXCEPT ![p].pc = "add"]
                /\ UNCHANGED exited
           ELSE IF pathType = "file"
           THEN /\ fileCalls' = Called(fileCalls, pathName)
                /\ tasks' = [tasks EXCEPT ![p].i = @ + 1]
                /\ UNCHANGED <<exited, dirCalls>>
           ELSE /\ exited' = "fatal"
                /\ UNCHANGED <<tasks, fileCalls, dirCalls>>
    /\ UNCHANGED <<WaitGroup, conOps>>
    /\ walkFrame

\* walk: one entry of the listing, up to the call of its action
walk_Entry(p) ==
    /\ Running(p, "loop")
    /\ tasks[p].i <= Len(ReadDir(fs, p))
    /\ LET pathName == Join(p, ReadDir(fs, p)[tasks[p].i])
           pathType == KindOf(fs, pathName)
       IN  IF Ignored(Ignore, pathName)
           THEN /\ tasks' = [tasks EXCEPT ![p].i = @ + 1]
                /\ UNCHANGED <<exited, fileCalls, dirCalls>>
           ELSE IF IsDir(pathType)
           THEN /\ dirCalls' = Called(dirCalls, pathName)
                /\ tasks' = [tasks EXCEPT ![p].pc = "add"]
                /\ UNCHANGED <<exited, fileCalls>>
           ELSE IF pathType = "file"
           THEN /\ fileCalls' = Called(fileCalls, pathName)
                /\ tasks' = [tasks EXCEPT ![p].i = @ + 1]
                /\ UNCHANGED <<exited, dirCalls>>
           ELSE /\ exited' = "fatal"
                /\ UNCHANGED <<tasks, fileCalls, dirCalls>>
    /\ UNCHANGED <<WaitGroup, conOps>>
    /\ walkFrame

\* walk spawning the subdirectory's goroutine without WaitGroup.Add(1)
walk_Add_Unregistered(p) ==
    /\ Running(p, "add")
    /\ tasks' = [tasks EXCEPT ![p].pc = "go"]
    /\ UNCHANGED <<WaitGroup, exited, fileCalls, dirCalls, conOps>>
    /\ walkFrame

\* walk: WaitGroup.Add(1) for the subdirectory whose dirAction returned
walk_Add(p) ==
    /\ Running(p, "add")
    /\ WaitGroup' = WaitGroup + 1
    /\ tasks' = [tasks EXCEPT ![p].pc = "go"]
    /\ UNCHANGED <<exited, fileCalls, dirCalls, conOps>>
    /\ walkFrame

\* walk: go walk(pathName, fileAction, dirAction, depth, level+1)
walk_Go(p) ==
    /\ Running(p, "go")
    /\ LET pathName == Join(p, ReadDir(fs, p)[tasks[p].i])
       IN  tasks' = [tasks EXCEPT ![p].pc = "loop", ![p].i = @ + 1]
                    @@ (pathName :> Task(tasks[p].level + 1, "enter", 1, FALSE))
    /\ UNCHANGED <<exited, WaitGroup, fileCalls, dirCalls, conOps>>
    /\ walkFrame

\* walk: the listing loop ends and walk returns
walk_Return(p) ==
    /\ Running(p, "loop")
    /\ tasks[p].i > Len(ReadDir(fs, p))
    /\ walkReturns(p)
    /\ UNCHANGED <<fileCalls, dirCalls, conOps>>
    /\ walkFrame

\* the goroutine started by Walk: its deferred WaitGroup.Done()
Wrapper_Done(p) ==
    /\ Running(p, "wrapper")
    /\ Done
    /\ tasks' = [tasks EXCEPT ![p].pc = "returned"]
    /\ UNCHANGED <<fileCalls, dirCalls, conOps>>
    /\ walkFrame

(***************************************************************************)
(* WalkLinear (the calling goroutine).                                     *)
(***************************************************************************)
LinDepths == -1..(MaxDepth + 1)
LinLevels == 0..MaxStart

Frame(r, l, pc, i) == [root |-> r, level |-> l, pc |-> pc, i |-> i]

Top == stack[Len(stack)]

InLinear(pc) ==
    mainPc = "linear" /\ exited = "no" /\ stack # <<>> /\ Top.pc = pc

\* the stack with its innermost call replaced
WithTop(f) == [stack EXCEPT ![Len(stack)] = f]

\* the innermost WalkLinear call returns
linReturns ==
    /\ stack' = SubSeq(stack, 1, Len(stack) - 1)
    /\ mainPc' = IF Len(stack) = 1 THEN "afterLinear" ELSE mainPc

linFrame == /\ UNCHANGED <<fs, main2Pc, linDepth, linLevel, lastCall>>
            /\ UNCHANGED ignVars
            /\ UNCHANGED conVars

\* the caller calls WalkLinear(root, fileAction, dirAction, d, l)
WalkLinear_Call(d, l) ==
    /\ mainPc = "config"
    /\ exited = "no"
    /\ lastCall' = "WalkLinear"
    /\ linDepth' = d
    /\ linLevel' = l
    /\ stack' = <<Frame(RootPath, l, "enter", 1)>>
    /\ mainPc' = "linear"
    /\ UNCHANGED <<fs, main2Pc, exited, linFiles, linDirs, linOps>>
    /\ UNCHANGED ignVars
    /\ UNCHANGED conVars

\* WalkLinear with the cutoff of walk, level > depth
Lin_Enter_Greater ==
    /\ InLinear("enter")
    /\ IF Top.level > linDepth
       THEN linReturns
       ELSE stack' = WithTop([Top EXCEPT !.pc = "stat"]) /\ UNCHANGED mainPc
    /\ UNCHANGED <<exited, linFiles, linDirs, linOps>>
    /\ linFrame

\* WalkLinear cutting off at level >= depth
Lin_Enter_Geq ==
    /\ InLinear("enter")
    /\ IF Top.level >= linDepth
       THEN linReturns
       ELSE stack' = WithTop([Top EXCEPT !.pc = "stat"]) /\ UNCHANGED mainPc
    /\ UNCHANGED <<exited, linFiles, linDirs, linOps>>
    /\ linFrame

\* WalkLinear: if level == depth { return }
Lin_Enter ==
    /\ InLinear("enter")
    /\ IF Top.level = linDepth
       THEN linReturns
       ELSE stack' = WithTop([Top EXCEPT !.pc = "stat"]) /\ UNCHANGED mainPc
    /\ UNCHANGED <<exited, linFiles, linDirs, linOps>>
    /\ linFrame

\* WalkLinear: os.Stat(root), fatal on an error or on a root that is no directory
Lin_Stat ==
    /\ InLinear("stat")
    /\ linOps' = linOps \cup {<<"stat", Top.root, Top.level>>}
    /\ IF ~IsDir(KindOf(fs, Top.root))
       THEN exited' = "fatal" /\ UNCHANGED stack
       ELSE stack' = WithTop([Top EXCEPT !.pc = "readdir"]) /\ UNCHANGED exited
    /\ UNCHANGED <<mainPc, linFiles, linDirs>>
    /\ linFrame

\* WalkLinear: ioutil.ReadDir(root), fatal on an error
Lin_ReadDir ==
    /\ InLinear("readdir")
    /\ linOps' = linOps \cup {<<"readdir", Top.root, Top.level>>}
    /\ IF KindOf(fs, Top.root) # "dir"
       THEN exited' = "fatal" /\ UNCHANGED stack
       ELSE stack' = WithTop([Top EXCEPT !.pc = "loop", !.i = 1])
            /\ UNCHANGED exited
    /\ UNCHANGED <<mainPc, linFiles, linDirs>>
    /\ linFrame

\* WalkLinear calling dirAction without the recursive call
Lin_Entry_NoRecurse ==
    /\ InLinear("loop")
    /\ Top.i <= Len(ReadDir(fs, Top.root))
    /\ LET pathName == Join(Top.root, ReadDir(fs, Top.root)[Top.i])
           pathType == KindOf(fs, pathName)
           next     == [Top EXCEPT !.i = @ + 1]
       IN  IF Ignored(Ignore, pathName)
           THEN /\ stack' = WithTop(next)
                /\ UNCHANGED <<exited, linFiles, linDirs>>
           ELSE IF IsDir(pathType)
           THEN /\ linDirs' = Called(linDirs, pathName)
                /\ stack' = WithTop(next)
                /\ UNCHANGED <<exited, linFiles>>
           ELSE IF pathType = "file"
           THEN /\ linFiles' = Called(linFiles, pathName)
                /\ stack' = WithTop(next)
                /\ UNCHANGED <<exited, linDirs>>
           ELSE /\ exited' = "fatal"
                /\ UNCHANGED <<stack, linFiles, linDirs>>
    /\ UNCHANGED <<mainPc, linOps>>
    /\ linFrame

\* WalkLinear passing level, not level+1, to the recursive call
Lin_Entry_SameLevel ==
    /\ InLinear("loop")
    /\ Top.i <= Len(ReadDir(fs, Top.root))
    /\ LET pathName == Join(Top.root, ReadDir(fs, Top.root)[Top.i])
           pathType == KindOf(fs, pathName)
           next     == [Top EXCEPT !.i = @ + 1]
       IN  IF Ignored(Ignore, pathName)
           THEN /\ stack' = WithTop(next)
                /\ UNCHANGED <<exited, linFiles, linDirs>>
           ELSE IF IsDir(pathType)
           THEN /\ linDirs' = Called(linDirs, pathName)
                /\ stack' = Append(WithTop(next),
                                   Frame(pathName, Top.level, "enter", 1))
                /\ UNCHANGED <<exited, linFiles>>
           ELSE IF pathType = "file"
           THEN /\ linFiles' = Called(linFiles, pathName)
                /\ stack' = WithTop(next)
                /\ UNCHANGED <<exited, linDirs>>
           ELSE /\ exited' = "fatal"
                /\ UNCHANGED <<stack, linFiles, linDirs>>
    /\ UNCHANGED <<mainPc, linOps>>
    /\ linFrame

\* WalkLinear: one entry of the listing; a directory is entered by a
\* recursive call after its dirAction
Lin_Entry ==
    /\ InLinear("loop")
    /\ Top.i <= Len(ReadDir(fs, Top.root))
    /\ LET pathName == Join(Top.root, ReadDir(fs, Top.root)[Top.i])
           pathType == KindOf(fs, pathName)
           next     == [Top EXCEPT !.i = @ + 1]
       IN  IF Ignored(Ignore, pathName)
           THEN /\ stack' = WithTop(next)
                /\ UNCHANGED <<exited, linFiles, linDirs>>
           ELSE IF IsDir(pathType)
           THEN /\ linDirs' = Called(linDirs, pathName)
                /\ stack' = Append(WithTop(next),
                                   Frame(pathName, Top.level + 1, "enter", 1))
                /\ UNCHANGED <<exited, linFiles>>
           ELSE IF pathType = "file"
           THEN /\ linFiles' = Called(linFiles, pathName)
                /\ stack' = WithTop(next)
                /\ UNCHANGED <<exited, linDirs>>
           ELSE /\ exited' = "fatal"
                /\ UNCHANGED <<stack, linFiles, linDirs>>
    /\ UNCHANGED <<mainPc, linOps>>
    /\ linFrame

\* WalkLinear: the listing loop ends and the call returns
Lin_Return ==
    /\ InLinear("loop")
    /\ Top.i > Len(ReadDir(fs, Top.root))
    /\ linReturns
    /\ UNCHANGED <<exited, linFiles, linDirs, linOps>>
    /\ linFrame

(***************************************************************************)
(* The program: SetIgnore calls, then optionally WalkLinear, then Walk     *)
(* (after a WalkLinear that started at level 0).                           *)
(***************************************************************************)
Paths == DOMAIN fs \cup {RootPath}

Next ==
    \/ \E ip \in {<<>>, IgnPath} : SetIgnore(ip)
    \/ \E d \in LinDepths, l \in LinLevels : WalkLinear_Call(d, l)
    \/ Lin_Enter
    \/ Lin_Stat
    \/ Lin_ReadDir
    \/ Lin_Entry
    \/ Lin_Return
    \/ \E d \in Depths : Walk_Add(d)
    \/ Walk_Go
    \/ Walk_Wait
    \/ \E p \in Paths : walk_Enter(p)
    \/ \E p \in Paths : walk_Stat(p)
    \/ \E p \in Paths : walk_ReadDir(p)
    \/ \E p \in Paths : walk_Entry(p)
    \/ \E p \in Paths : walk_Add(p)
    \/ \E p \in Paths : walk_Go(p)
    \/ \E p \in Paths : walk_Return(p)
    \/ \E p \in Paths : Wrapper_Done(p)

Spec == Init /\ [][Next]_vars

SpecIgn == InitIgn /\ [][Next]_vars

\* the steps of the goroutines of a Walk, and of Walk itself once called
WalkStep ==
    \/ Walk_Go
    \/ Walk_Wait
    \/ \E p \in Paths :
          \/ walk_Enter(p) \/ walk_Stat(p) \/ walk_ReadDir(p) \/ walk_Entry(p)
          \/ walk_Add(p) \/ walk_Go(p) \/ walk_Return(p) \/ Wrapper_Done(p)

\* the Go scheduler runs a goroutine that can run
InitLive ==
    /\ fs \in TreesOf(MaxNodes)
    /\ ignFile \in {f \in IgnFiles : f.exists /\ f.readable /\ Len(f.contents) > 10}
    /\ InitRest

FairSpec == InitLive /\ [][Next]_vars /\ WF_vars(WalkStep)

(***************************************************************************)
(* Two goroutines calling Walk.  WaitGroup is one package-level variable,  *)
(* so a second goroutine that calls Walk, here on the root Root2 and with  *)
(* the depth of the first call, adds to and waits on the counter of the    *)
(* first.  A goroutine released from Wait that finds the counter raised    *)
(* again panics ("WaitGroup is reused before previous Wait has returned"); *)
(* whether the first caller was blocked in Wait when the counter reached   *)
(* zero is not fixed by its position, so the Add of the second caller at   *)
(* that point either goes through or ends the process.                     *)
(***************************************************************************)
Root2 == <<"s">>

\* the trees walked by the second caller
Trees2 ==
    {Root2 :> "dir"}
    \cup {(Root2 :> "dir") @@ (Join(Root2, NameSeq[2]) :> k) : k \in {"dir", "file"}}

InitTwo ==
    /\ fs \in {t1 @@ t2 : t1 \in TreesOf(MaxNodes - 1), t2 \in Trees2}
    /\ ignFile = IgnFile(FALSE, FALSE, FALSE, <<>>, TRUE)
    /\ InitRest

walk2Frame == /\ UNCHANGED <<fs, mainPc, depth, lastCall, fileCalls, dirCalls, conOps>>
              /\ UNCHANGED ignVars
              /\ UNCHANGED linVars

\* the second caller's Walk: WaitGroup.Add(2)
Walk2_Add ==
    /\ main2Pc = "idle"
    /\ mainPc \in {"go", "wait", "returned"}
    /\ exited = "no"
    /\ WaitGroup' = WaitGroup + 2
    /\ main2Pc' = "go"
    /\ IF mainPc = "wait" /\ WaitGroup = 0
       THEN exited' \in {"no", "panic"}
       ELSE UNCHANGED exited
    /\ UNCHANGED tasks
    /\ walk2Frame

\* the second caller's Walk: go func() { defer WaitGroup.Done(); walk(...) }()
Walk2_Go ==
    /\ main2Pc = "go"
    /\ exited = "no"
    /\ tasks' = tasks @@ (Root2 :> Task(0, "enter", 1, TRUE))
    /\ main2Pc' = "wait"
    /\ UNCHANGED <<WaitGroup, exited>>
    /\ walk2Frame

\* the second caller's Walk: WaitGroup.Wait() returns
Walk2_Wait ==
    /\ main2Pc = "wait"
    /\ exited = "no"
    /\ WaitGroup = 0
    /\ main2Pc' = "returned"
    /\ UNCHANGED <<WaitGroup, exited, tasks>>
    /\ walk2Frame

NextTwo ==
    \/ \E d \in Depths : Walk_Add(d)
    \/ Walk_Go
    \/ Walk_Wait
    \/ Walk2_Add
    \/ Walk2_Go
    \/ Walk2_Wait
    \/ \E p \in Paths : walk_Enter(p)
    \/ \E p \in Paths : walk_Stat(p)
    \/ \E p \in Paths : walk_ReadDir(p)
    \/ \E p \in Paths : walk_Entry(p)
    \/ \E p \in Paths : walk_Add(p)
    \/ \E p \in Paths : walk_Go(p)
    \/ \E p \in Paths : walk_Return(p)
    \/ \E p \in Paths : Wrapper_Done(p)

SpecTwo == InitTwo /\ [][NextTwo]_vars

(***************************************************************************)
(* Notions used by the properties.                                         *)
(***************************************************************************)
\* the entries below the root
Entries == DOMAIN fs \ {RootPath}

\* number of separators of a path: the level of the entry's own directory
RECURSIVE Slashes(_)
Slashes(p) ==
    IF p = <<>> THEN 0
    ELSE (IF Head(p) = "/" THEN 1 ELSE 0) + Slashes(Tail(p))

\* the directory an entry is listed in
Parent(q) ==
    LET k == CHOOSE i \in 1..Len(q) :
                 q[i] = "/" /\ \A j \in (i + 1)..Len(q) : q[j] # "/"
    IN  SubSeq(q, 1, k - 1)

\* the traversal level, counted from the root at 0, at which q is listed
ListLevel(q) == Slashes(q) - 1

\* sub occurs in s
Contains(s, sub) ==
    \E i \in 0..(Len(s) - Len(sub)) : SubSeq(s, i + 1, i + Len(sub)) = sub

\* the ignore test skips neither q nor a directory on the way to q
RECURSIVE NotSkipped(_)
NotSkipped(q) ==
    /\ ~Ignored(Ignore, q)
    /\ Parent(q) # RootPath => NotSkipped(Parent(q))

\* Walk called the action of entry q
ConActed(q) ==
    \/ IsDir(fs[q]) /\ q \in DOMAIN dirCalls
    \/ fs[q] = "file" /\ q \in DOMAIN fileCalls

\* WalkLinear called the action of entry q
LinActed(q) ==
    \/ IsDir(fs[q]) /\ q \in DOMAIN linDirs
    \/ fs[q] = "file" /\ q \in DOMAIN linFiles

\* the paths on which Walk, WalkLinear called an action
ConCalled == DOMAIN fileCalls \cup DOMAIN dirCalls
LinCalled == DOMAIN linFiles \cup DOMAIN linDirs

\* a goroutine of the walk has been started and has not finished
Unfinished == {p \in DOMAIN tasks : tasks[p].pc # "returned"}

\* the tree holds only listable directories and regular files
NoFatalTree ==
    /\ KindOf(fs, RootPath) = "dir"
    /\ \A q \in Entries : fs[q] \in {"dir", "file"}


(***************************************************************************)
(* Properties.                                                             *)
(***************************************************************************)
\* C1: Walk returns only after every goroutine of the walk has finished and
\* every entry that is not skipped by the ignore test and lies within the
\* depth bound has had its action called; the counter is positive as long
\* as a goroutine of the walk is registered or running.
C1_WalkWaitsForAllTasks ==
    /\ (mainPc = "go" \/ Unfinished # {}) => WaitGroup > 0
    /\ mainPc = "returned" =>
          /\ Unfinished = {}
          /\ \A q \in Entries :
                (NotSkipped(q) /\ (depth = -1 \/ ListLevel(q) <= depth))
                    => ConActed(q)

\* a Walk has returned after a goroutine for a subdirectory acted on an entry
C1_Witness ==
    /\ mainPc = "returned"
    /\ Cardinality(DOMAIN tasks) >= 2
    /\ \E q \in ConCalled : ListLevel(q) = 1

\* C2: on a tree without fatal condition, under fair scheduling, a Walk that
\* has been called (its two units registered) eventually returns.
C2_WalkReturns == (mainPc = "go" /\ NoFatalTree) ~> (mainPc = "returned")

\* a Walk over a tree with a subdirectory has returned with the counter at 0
C2_Witness ==
    /\ mainPc = "returned"
    /\ NoFatalTree
    /\ WaitGroup = 0
    /\ \E q \in Entries : fs[q] = "dir" /\ q \in DOMAIN tasks

NodeGitContents ==
    <<"n", "o", "d", "e", "_", "m", "o", "d", "u", "l", "e", "s", "\n",
      ".", "g", "i", "t", "\n">>

NodeModules == <<"n", "o", "d", "e", "_", "m", "o", "d", "u", "l", "e", "s">>

DotGit == <<".", "g", "i", "t">>

\* the directories that a walker was called on
Recursed ==
    {o[2] : o \in conOps \cup linOps} \cup DOMAIN tasks
    \cup {stack[k].root : k \in 1..Len(stack)}

\* the non-ignored entry at position k of the listing of p is of unsupported kind
Unsupported(p, k) ==
    LET q == Join(p, ReadDir(fs, p)[k])
    IN  fs[q] = "other" /\ ~Ignored(Ignore, q)

\* WalkLinear has been called and has returned
LinearReturned == linLevel >= 0 /\ mainPc \notin {"config", "linear"}

\* C4: with a non-empty matcher, neither walker calls an action on a path
\* the matcher matches nor recurses into a directory with such a path; with
\* the ignore file "node_modules\n.git\n" no path containing "node_modules"
\* or ".git" is passed to an action or recursed into.
C4_IgnoredNeverVisited ==
    Ignore.src # <<>> =>
       /\ \A q \in ConCalled \cup LinCalled \cup (Recursed \ {RootPath}) :
             ~MatchString(Ignore, q)
       /\ ignFile.contents = NodeGitContents =>
             \A q \in ConCalled \cup LinCalled \cup (Recursed \ {RootPath}) :
                ~Contains(q, NodeModules) /\ ~Contains(q, DotGit)

\* both walkers have run with the example's matcher over a tree with a
\* directory named .git and have called an action
C4_Witness ==
    /\ mainPc = "returned"
    /\ Ignore.src # <<>>
    /\ ignFile.contents = NodeGitContents
    /\ ConCalled # {} /\ LinCalled # {}
    /\ \E q \in Entries : fs[q] = "dir" /\ Contains(q, DotGit)

\* C5: with depth d >= 0 no goroutine of Walk at a level above d stats or
\* lists its directory; a Walk that returns has listed the root and every
\* directory it acted on at a level up to d, and has called the action of
\* every non-ignored entry of every directory it listed; with d = 0 the
\* actions are called on the non-ignored entries of the root and on nothing
\* else.
C5_ConcurrentDepthRule ==
    depth >= 0 =>
       /\ \A o \in conOps : o[3] <= depth
       /\ mainPc = "returned" =>
             /\ <<"readdir", RootPath, 0>> \in conOps
             /\ \A q \in DOMAIN dirCalls :
                   Slashes(q) <= depth => <<"readdir", q, Slashes(q)>> \in conOps
             /\ \A o \in conOps :
                   o[1] = "readdir" =>
                      \A q \in Entries :
                         (Parent(q) = o[2] /\ ~Ignored(Ignore, q)) => ConActed(q)
             /\ depth = 0 =>
                   ConCalled = {q \in Entries :
                                   Parent(q) = RootPath /\ ~Ignored(Ignore, q)}

\* a Walk with depth 0 has returned after acting on a subdirectory that has
\* an entry of its own
C5_Witness ==
    /\ mainPc = "returned"
    /\ depth = 0
    /\ \E q \in DOMAIN dirCalls :
          /\ q \in DOMAIN tasks
          /\ \E e \in Entries : Parent(e) = q /\ ~Ignored(Ignore, e)

\* C6: a WalkLinear call whose level equals depth returns at once: it does
\* not stat or list its directory and calls no action on its entries; with
\* depth = 0 and start level 0 no action is called on anything.
C6_LinearCutoff ==
    linLevel >= 0 =>
       /\ \A o \in linOps : o[3] # linDepth
       /\ \A q \in LinCalled : linLevel + ListLevel(q) # linDepth
       /\ \A k \in 1..Len(stack) :
             stack[k].level = linDepth => (k = Len(stack) /\ stack[k].pc = "enter")
       /\ (linDepth = 0 /\ linLevel = 0) => (LinCalled = {} /\ linOps = {})

\* WalkLinear with depth 0 from level 0 has returned on a root with entries
\* that no matcher skips
C6_Witness ==
    /\ mainPc = "afterLinear"
    /\ linDepth = 0 /\ linLevel = 0
    /\ Ignore.src = <<>>
    /\ \E q \in Entries : fs[q] = "file"

\* C7: with an empty matcher and unlimited depth, a completed Walk has
\* called fileAction and dirAction on the same sets of paths as a completed
\* WalkLinear started at level 0.
C7_SameSetsUnlimited ==
    (/\ mainPc = "returned"
     /\ linLevel = 0 /\ linDepth = -1 /\ depth = -1
     /\ Ignore.src = <<>>)
    => /\ DOMAIN fileCalls = DOMAIN linFiles
       /\ DOMAIN dirCalls = DOMAIN linDirs

\* both walkers have completed, unlimited, over a tree with a file below a
\* subdirectory
C7_Witness ==
    /\ mainPc = "returned"
    /\ linLevel = 0 /\ linDepth = -1 /\ depth = -1
    /\ Ignore.src = <<>>
    /\ \E q \in DOMAIN fileCalls : ListLevel(q) = 1

\* C8 as stated: on a root that is a regular file neither walker returns
\* normally, whatever the depth and the start level, and no action is called.
C8_RootFileAlwaysFatal ==
    KindOf(fs, RootPath) = "file" =>
       /\ mainPc \notin {"afterLinear", "returned"}
       /\ ConCalled \cup LinCalled = {}

\* C8, amended: on a root that is a regular file no action is called, the
\* stat of the root ends the process, Walk (depth -1 or >= 0) never returns,
\* and WalkLinear returns only when its start level equals its depth.
C8_RootFileFatal ==
    KindOf(fs, RootPath) = "file" =>
       /\ ConCalled \cup LinCalled = {}
       /\ mainPc # "returned"
       /\ LinearReturned => linLevel = linDepth
       /\ conOps \cup linOps # {} => exited = "fatal"
       /\ \A o \in conOps \cup linOps : o[1] = "stat"

\* the goroutine of a Walk has ended the process at the stat of a root that
\* is a regular file
C8_Witness ==
    /\ KindOf(fs, RootPath) = "file"
    /\ exited = "fatal"
    /\ \E o \in conOps : o[1] = "stat" /\ o[2] = RootPath

\* C9: in both walkers a non-ignored entry that is neither a directory nor a
\* regular file is never passed to an action and never stepped over: the
\* listing loop that reaches it ends the process, and a walker that listed
\* its directory does not return.
C9_UnsupportedKindFatal ==
    /\ \A q \in Entries : fs[q] = "other" => q \notin ConCalled \cup LinCalled
    /\ \A p \in DOMAIN tasks :
          /\ \A k \in 1..(tasks[p].i - 1) : ~Unsupported(p, k)
          /\ tasks[p].pc \in {"add", "go"} => ~Unsupported(p, tasks[p].i)
    /\ \A n \in 1..Len(stack) :
          \A k \in 1..(stack[n].i - 1) : ~Unsupported(stack[n].root, k)
    /\ \A o \in conOps :
          (mainPc = "returned" /\ o[1] = "readdir") =>
             \A k \in 1..Len(ReadDir(fs, o[2])) : ~Unsupported(o[2], k)
    /\ \A o \in linOps :
          (LinearReturned /\ o[1] = "readdir") =>
             \A k \in 1..Len(ReadDir(fs, o[2])) : ~Unsupported(o[2], k)

\* the listing loop of a goroutine of Walk has ended the process at the
\* only unsupported entry of the tree
C9_Witness ==
    /\ exited = "fatal"
    /\ mainPc = "wait"
    /\ KindOf(fs, RootPath) = "dir"
    /\ Cardinality({q \in Entries : fs[q] \in {"other", "xdir"}}) = 1
    /\ \E p \in DOMAIN tasks :
          /\ tasks[p].pc = "loop"
          /\ tasks[p].i <= Len(ReadDir(fs, p))
          /\ Unsupported(p, tasks[p].i)

\* C10 as stated: after SetIgnore("") the matcher is empty, whatever calls
\* preceded it.
C10_EmptyPathResets == lastCall = "SetIgnore(\"\")" => Ignore.src = <<>>

\* C10, amended: SetIgnore("") leaves the matcher and the ignore file as they
\* were before the call; while the matcher is empty, a Walk of unlimited
\* depth that returns has called the action of every entry.
C10_EmptyPathKeepsMatcher ==
    /\ [][(lastCall' = "SetIgnore(\"\")") =>
             (Ignore' = Ignore /\ ignFile' = ignFile /\ exited' = exited)]_vars
    /\ []((mainPc = "returned" /\ depth = -1 /\ Ignore.src = <<>>)
             => \A q \in Entries : ConActed(q))

\* SetIgnore("") has returned after an earlier call installed a pattern
C10_Witness == lastCall = "SetIgnore(\"\")" /\ Ignore.src # <<>>

\* C11 as stated: SetIgnore on a path where no file exists does not end the
\* process, leaves an empty matcher, and leaves no file at the path.
C11_MissingFileNoError ==
    [][(lastCall' = "SetIgnore" /\ ~ignFile.exists) =>
          (exited' = "no" /\ Ignore'.src = <<>> /\ ~ignFile'.exists)]_vars

\* C12 as stated: SetIgnore on a file that exists and cannot be read ends the
\* process without installing a matcher, whatever the file's other
\* permissions.
C12_UnreadableFileFatal ==
    [][(lastCall' = "SetIgnore" /\ ignFile.exists /\ ~ignFile.readable) =>
          (exited' = "fatal" /\ Ignore' = Ignore)]_vars

\* C20 as stated: a file that exists at the ignore path keeps existing, with
\* its contents, through every step of the program.
C20_ExistingFileUntouched ==
    [][ignFile.exists =>
          (ignFile'.exists /\ ignFile'.contents = ignFile.contents)]_vars

\* the goroutines whose call of walk has not returned
InWalk == {p \in DOMAIN tasks : tasks[p].pc \notin {"wrapper", "returned"}}

\* the units of work that are registered with the counter and not completed:
\* the two units of Walk before its goroutine starts, the goroutine started
\* by Walk until its own deferred Done, every call of walk that has not
\* returned, and every subdirectory registered by Add(1) whose goroutine is
\* about to be started
Outstanding ==
    (IF mainPc = "go" THEN 2 ELSE 0)
    + (IF RootPath \in DOMAIN tasks /\ tasks[RootPath].pc # "returned"
       THEN 1 ELSE 0)
    + Cardinality(InWalk)
    + Cardinality({p \in DOMAIN tasks : tasks[p].pc = "go"})

\* C13: in every reachable state of a walk the counter is not negative and
\* equals the number of registered units of work that are not completed; no
\* Done finds the counter at zero.
C13_CounterCountsOutstanding ==
    /\ WaitGroup >= 0
    /\ WaitGroup = Outstanding
    /\ exited # "panic"

\* a goroutine of a subdirectory has returned while two other calls of walk
\* are still running
C13_Witness ==
    /\ \E p \in DOMAIN tasks : p # RootPath /\ tasks[p].pc = "returned"
    /\ Cardinality(InWalk) >= 2
    /\ WaitGroup >= 3

\* C15 as stated: with a depth bound d >= 0 neither walker, whatever the
\* start level of WalkLinear, lists a directory at a level greater than d.
C15_DepthAlwaysBounds ==
    /\ depth >= 0 => \A o \in conOps : o[3] <= depth
    /\ (linLevel >= 0 /\ linDepth >= 0) => \A o \in linOps : o[3] <= linDepth

\* C15, amended: with depth d >= 0 Walk lists no directory at a level above
\* d; WalkLinear started at a level up to d lists no directory at level d or
\* above; WalkLinear started at a level above d never meets its cutoff and,
\* like both walkers with depth -1, acts on every entry that is not skipped.
C15_DepthBound ==
    /\ depth >= 0 => \A o \in conOps : o[3] <= depth
    /\ (linLevel >= 0 /\ linLevel <= linDepth) =>
          \A o \in linOps : o[3] < linDepth
    /\ (LinearReturned /\ linLevel > linDepth) =>
          \A q \in Entries : NotSkipped(q) => LinActed(q)
    /\ (mainPc = "returned" /\ depth = -1) =>
          \A q \in Entries : NotSkipped(q) => ConActed(q)

\* WalkLinear with depth 0 started at level 1 has returned after listing a
\* subdirectory at level 2
C15_Witness ==
    /\ LinearReturned
    /\ linDepth = 0 /\ linLevel = 1
    /\ \E o \in linOps : o[1] = "readdir" /\ o[3] = 2

\* the call of walk of goroutine p has returned (its Done has been called)
WalkDone(p) == p \in DOMAIN tasks /\ tasks[p].pc \in {"wrapper", "returned"}

\* goroutine p has called Done while the goroutine of a subdirectory it
\* started is still in walk
DoneBeforeChild(p) ==
    /\ WalkDone(p)
    /\ \E q \in InWalk : q # RootPath /\ Parent(q) = p

\* C16: whenever a goroutine has called Done while a goroutine it started is
\* still running, the counter is positive and Walk is still blocked in Wait.
C16_DoneWithoutJoin ==
    (\E p \in DOMAIN tasks : DoneBeforeChild(p)) =>
       (WaitGroup > 0 /\ mainPc = "wait")

\* the goroutine of a subdirectory has returned and called Done while the
\* goroutine of its own subdirectory is still running
C16_Witness ==
    \E p \in DOMAIN tasks :
       p # RootPath /\ tasks[p].pc = "returned" /\ DoneBeforeChild(p)

\* C17: the goroutine of a subdirectory is started only after dirAction has
\* been called on it, and an action is called on an entry only after
\* dirAction has been called on the directory that lists it, unless that
\* directory is the root.
C17_ParentActionFirst ==
    /\ [][\A q \in ConCalled' \ ConCalled :
             Parent(q) # RootPath => Parent(q) \in DOMAIN dirCalls]_vars
    /\ [][\A p \in DOMAIN tasks' \ DOMAIN tasks :
             p # RootPath => p \in DOMAIN dirCalls]_vars
    /\ [](\A p \in DOMAIN tasks :
             tasks[p].pc \in {"add", "go"} =>
                Join(p, ReadDir(fs, p)[tasks[p].i]) \in DOMAIN dirCalls)

\* an action has been called on an entry of a subdirectory
C17_Witness ==
    \E q \in ConCalled : Parent(q) # RootPath /\ Parent(q) \in DOMAIN dirCalls

\* C18: one Walk calls an action at most once per path, calls fileAction
\* and dirAction on no common path, and calls no action on the root.
C18_AtMostOnce ==
    /\ \A q \in DOMAIN fileCalls : fileCalls[q] = 1
    /\ \A q \in DOMAIN dirCalls : dirCalls[q] = 1
    /\ DOMAIN fileCalls \cap DOMAIN dirCalls = {}
    /\ RootPath \notin ConCalled

\* a Walk has returned after calling fileAction and dirAction
C18_Witness ==
    /\ mainPc = "returned"
    /\ DOMAIN fileCalls # {} /\ DOMAIN dirCalls # {}

\* C19: with the same matcher and for every depth d >= 0, a completed Walk
\* of depth d has called fileAction and dirAction on the same sets of paths
\* as a completed WalkLinear of depth d + 1 started at level 0.
C19_DepthRulesOneApart ==
    (/\ mainPc = "returned"
     /\ linLevel = 0
     /\ depth >= 0 /\ linDepth = depth + 1)
    => /\ DOMAIN fileCalls = DOMAIN linFiles
       /\ DOMAIN dirCalls = DOMAIN linDirs

\* Walk of depth 0 and WalkLinear of depth 1 have both completed on a tree
\* with an entry below a subdirectory, which neither has acted on
C19_Witness ==
    /\ mainPc = "returned"
    /\ linLevel = 0 /\ depth = 0 /\ linDepth = 1
    /\ ConCalled # {}
    /\ \E q \in Entries :
          ListLevel(q) = 1 /\ NotSkipped(q) /\ q \notin ConCalled \cup LinCalled

\* the goroutines of the Walk called on root
OwnTasks(root) == {p \in DOMAIN tasks : Head(p) = Head(root)}

\* the Walk called on root has started its goroutine, and every goroutine of
\* that walk has finished
OwnFinished(root) ==
    /\ root \in DOMAIN tasks
    /\ \A p \in OwnTasks(root) : tasks[p].pc = "returned"

\* C14 as stated: each Walk has a counter of its own, so the Wait of a Walk
\* whose own goroutines have all finished finds its counter at zero,
\* whatever another Walk has registered.
C14_OwnCounter ==
    exited = "no" =>
       /\ (mainPc = "wait" /\ OwnFinished(RootPath)) => WaitGroup = 0
       /\ (main2Pc = "wait" /\ OwnFinished(Root2)) => WaitGroup = 0

====
